---- MODULE Spec2Model ----
(***************************************************************************)
(* A model of src/listen.py (wp listen): the primary speech segmenter      *)
(* capture_speech, the wake-word matcher wake_match / strip_wake, the      *)
(* pipelined player speak_response with its stop-word and key listeners,   *)
(* the chunker split_sentences, run_llm and the main loop.                 *)
(*                                                                         *)
(* The specifications share the module, one per component:                 *)
(*   SpecSeg    capture_speech fed a stream of classified frames           *)
(*   SpecWake   wake_match / strip_wake applied to drawn inputs            *)
(*   SpecSpeak  speak_response, its synthesis threads and its listeners    *)
(*   SpecListen StopWordListener._listen frame by frame, next to           *)
(*              capture_speech fed the same frames                         *)
(*   SpecMain   the main loop around run_llm and speak_response            *)
(*   SpecSplit  split_sentences applied to drawn responses                 *)
(*   SpecQueue  the audio callback and the consumer loop of capture_speech *)
(* Each leaves the variables of the other components at their initial      *)
(* values.                                                                 *)
(***************************************************************************)
EXTENDS Integers, Sequences, FiniteSets, TLC

VARIABLES
    \* ---- capture_speech (src/listen.py:47-124) ----
    capturing,      \* TRUE while the main loop is inside capture_speech
    speech_buf,     \* local speech_buf: the frames buffered so far
    silent_count,   \* local silent_count
    speech_count,   \* local speech_count
    recording,      \* local recording
    fed,            \* history: every frame the consumer loop has popped
    segments,       \* history: every value capture_speech has returned
    \* ---- wake_match / strip_wake (src/listen.py:130-163) ----
    text,           \* the transcript, a sequence of characters
    wake_words,     \* args.wake, a list of phrases
    pcw,            \* "heard", "checked" (wake_match done), "stripped"
    is_match,       \* what wake_match returned
    stripped,       \* what strip_wake returned
    \* ---- speak_response and its threads (src/listen.py:374-585) ----
    session,        \* number of calls of speak_response made so far
    pc,             \* where the main thread stands
    num_chunks,     \* len(chunks) of the current call
    loop_i,         \* the loop index i of the current call
    wav,            \* local wav: None, or the chunk the audio was made from
    next_wav,       \* local next_wav
    next_thread,    \* local next_thread: 0 for None, else an index of threads
    container,      \* the dict the current iteration's synth writes to
    threads,        \* synthesis threads: [session, chunk, state]
    active,         \* sd.get_stream().active
    exc,            \* an exception is propagating out of the try block
    stopped,        \* per call: StopWordListener._stopped
    sl_running,     \* per call: StopWordListener._running
    sl_thread,      \* per call: where the _listen thread stands
    pressed,        \* per call: KeyListener.pressed
    kl_running,     \* per call: KeyListener._running
    kl_thread,      \* per call: where the key thread stands
    played,         \* history: the sd.play calls of the current call
    synth_out,      \* history: how each chunk's synthesis ended
    cancel_mark,    \* history: the moment should_stop() first became true
    \* ---- StopWordListener._listen frame by frame (src/listen.py:401-455) ----
    sw_pc,          \* "idle", "open" (inside with stream), "done", "exit", "dead"
    sw_running,     \* self._running
    sw_stopped,     \* self._stopped
    sw_frames,      \* local speech_frames
    sw_speech_count,\* local speech_count
    sw_silent_count,\* local silent_count
    sw_checks,      \* history: every segment handed to whisper.transcribe
    \* ---- main (src/listen.py:591-681) ----
    mpc,            \* where the main loop stands
    busy,           \* local busy
    heard,          \* local text: the transcript, then the query
    response,       \* local response
    utterances,     \* number of capture_speech calls made by the loop
    log,            \* history: what the current pass of the loop has done
    \* ---- split_sentences (src/listen.py:169-225) ----
    resp,           \* the response text handed to split_sentences
    final,          \* what split_sentences returned
    split_done,     \* TRUE once split_sentences has returned
    \* ---- the callback and the consumer loop of capture_speech (62-83) ----
    frame_q,        \* local q: the arrival numbers of the frames queued
    event,          \* local event: TRUE when set
    cb_pc,          \* the callback: "idle", or "appended" (before event.set)
    cpc,            \* the consumer: "wait", "clear", "drain", "returned"
    arrived,        \* number of frames the stream has delivered so far
    handled,        \* history: the frames popped, in the order popped
    dropped,        \* history: the frames left in q when the call returned
    raced           \* history: a frame arrived while the consumer was awake

segVars == <<capturing, speech_buf, silent_count, speech_count, recording,
             fed, segments>>

wakeVars == <<text, wake_words, pcw, is_match, stripped>>

playerVars == <<session, pc, num_chunks, loop_i, wav, next_wav, next_thread, container,
                threads, active, exc, played, synth_out, cancel_mark>>

listenerVars == <<stopped, sl_running, sl_thread, pressed, kl_running,
                  kl_thread>>

playerVarsButPc == <<session, num_chunks, loop_i, wav, next_wav, next_thread, container,
                     threads, active, exc, played, synth_out, cancel_mark>>

speakVars == <<playerVars, listenerVars>>

swVars == <<sw_pc, sw_running, sw_stopped, sw_frames, sw_speech_count,
            sw_silent_count, sw_checks>>

mainVars == <<mpc, busy, heard, response, utterances, log>>

splitVars == <<resp, final, split_done>>

queueVars == <<frame_q, event, cb_pc, cpc, arrived, handled, dropped, raced>>

vars == <<segVars, wakeVars, speakVars, swVars, mainVars, splitVars,
          queueVars>>

(***************************************************************************)
(* Bounds and parameters.                                                  *)
(***************************************************************************)
\* Frames fed in one behaviour.
MaxFrames == 8

\* SILENCE_MS // FRAME_MS, MIN_SPEECH_MS // FRAME_MS and
\* MAX_SEGMENT_S * 1000 // FRAME_MS (50, 15 and 500 in the source), scaled
\* down so that every path of the segmenter is reached in a few frames.
silence_frames == 2
min_speech_frames == 2
max_frames == 4

ENERGY_THRESHOLD_DBFS == -35

\* The energy levels a frame may have: below the gate, and exactly on it.
Levels == {-40, -35}

\* A frame as the consumer sees it: its arrival number, energy_dbfs of its
\* samples, and what vad.is_speech answers (or would answer) for it.
Frames(n) == [id : {n}, dbfs : Levels, vad : BOOLEAN]

(***************************************************************************)
(* capture_speech                                                          *)
(***************************************************************************)
\* line 85: energy_dbfs(samples) < energy_threshold
BelowGate(f) == f.dbfs < ENERGY_THRESHOLD_DBFS

\* The frame takes the speech branch of lines 101-102: it passed the energy
\* gate and the VAD answered True.
IsSpeech(f) == ~BelowGate(f) /\ f.vad

\* lines 89 and 115: silent_count >= silence_frames
SilenceReachedAlways(n) == n >= 1
SilenceReached(n) == n >= silence_frames

\* lines 90 and 116: speech_count >= min_speech_frames
EnoughSpeechAlways(n) == TRUE
EnoughSpeech(n) == n >= min_speech_frames

\* line 107: speech_count >= max_frames
MaxReachedLate(n) == n > max_frames
MaxReached(n) == n >= max_frames

\* line 105: silent_count = 0 on a speech frame
SilentAfterSpeechKept(n) == n
SilentAfterSpeech(n) == 0

\* lines 91-94, 108-111, 117-120: return the joined buffer
Return(buf, reason) ==
    /\ segments' = Append(segments, [frames |-> buf, reason |-> reason])
    /\ capturing' = FALSE

\* main, line 641: the call, and lines 53-60: the locals of a fresh call
CaptureSpeech ==
    /\ ~capturing
    /\ capturing' = TRUE
    /\ speech_buf' = <<>>
    /\ silent_count' = 0
    /\ speech_count' = 0
    /\ recording' = FALSE
    /\ UNCHANGED <<fed, segments>>

\* lines 87-98 and 113-124: a non-speech frame while recording
SilentFrame(f) ==
    LET buf == Append(speech_buf, f)
        sc  == silent_count + 1
    IN  IF SilenceReached(sc)
        THEN IF EnoughSpeech(speech_count)
             THEN /\ Return(buf, "silence")
                  /\ speech_buf' = buf
                  /\ silent_count' = sc
                  /\ UNCHANGED <<speech_count, recording>>
             ELSE /\ speech_buf' = <<>>
                  /\ speech_count' = 0
                  /\ silent_count' = 0
                  /\ recording' = FALSE
                  /\ UNCHANGED <<capturing, segments>>
        ELSE /\ speech_buf' = buf
             /\ silent_count' = sc
             /\ UNCHANGED <<speech_count, recording, capturing, segments>>

\* lines 82-99: a frame below the energy gate (the VAD is not consulted)
QuietFrame ==
    /\ capturing
    /\ Len(fed) < MaxFrames
    /\ \E f \in Frames(Len(fed) + 1) :
        /\ BelowGate(f)
        /\ fed' = Append(fed, f)
        /\ IF recording
           THEN SilentFrame(f)
           ELSE UNCHANGED <<speech_buf, silent_count, speech_count, recording,
                            capturing, segments>>

\* lines 101-111: a frame past the gate that the VAD calls speech
SpeechFrame ==
    /\ capturing
    /\ Len(fed) < MaxFrames
    /\ \E f \in Frames(Len(fed) + 1) :
        /\ IsSpeech(f)
        /\ fed' = Append(fed, f)
        /\ recording' = TRUE
        /\ speech_count' = speech_count + 1
        /\ silent_count' = SilentAfterSpeech(silent_count)
        /\ speech_buf' = Append(speech_buf, f)
        /\ IF MaxReached(speech_count + 1)
           THEN Return(Append(speech_buf, f), "max")
           ELSE UNCHANGED <<capturing, segments>>

\* lines 101, 112-124: a frame past the gate that the VAD calls non-speech
NonSpeechFrame ==
    /\ capturing
    /\ Len(fed) < MaxFrames
    /\ \E f \in Frames(Len(fed) + 1) :
        /\ ~BelowGate(f)
        /\ ~f.vad
        /\ fed' = Append(fed, f)
        /\ IF recording
           THEN SilentFrame(f)
           ELSE UNCHANGED <<speech_buf, silent_count, speech_count, recording,
                            capturing, segments>>

(***************************************************************************)
(* Properties of capture_speech                                            *)
(***************************************************************************)
\* The number of frames of buf that took the speech branch.
SpeechFramesIn(buf) == Cardinality({k \in 1..Len(buf) : IsSpeech(buf[k])})

SilenceSegments == {k \in 1..Len(segments) : segments[k].reason = "silence"}

\* The last silence_frames positions of a buffer.
TailIdx(buf) == {j \in 1..Len(buf) : j > Len(buf) - silence_frames}

\* C1: every segment capture_speech returns through the silence-timeout
\* path holds at least min_speech_frames speech frames; only the
\* max-duration path is exempt.
C1_MinSpeech ==
    \A k \in SilenceSegments :
        SpeechFramesIn(segments[k].frames) >= min_speech_frames

\* A silence-timeout segment with exactly the minimum of speech was returned
\* after an earlier false trigger was discarded.
C1_Witness ==
    /\ \E k \in SilenceSegments :
           /\ SpeechFramesIn(segments[k].frames) = min_speech_frames
           /\ segments[k].frames[1].id > 1
           /\ IsSpeech(fed[1])
    /\ ~capturing

\* C2 as stated: in every segment returned through the silence-timeout path,
\* the last silence_frames frames are all non-speech by the VAD's own answer.
C2_TailVadNegative ==
    \A k \in SilenceSegments :
        /\ Len(segments[k].frames) >= silence_frames
        /\ \A j \in TailIdx(segments[k].frames) : ~segments[k].frames[j].vad

\* C2 as amended: in every segment returned through the silence-timeout
\* path, each of the last silence_frames frames is non-speech for the
\* segmenter: it is below the energy gate (the VAD was not asked) or the VAD
\* answered non-speech.
C2_TailNonSpeech ==
    \A k \in SilenceSegments :
        /\ Len(segments[k].frames) >= silence_frames
        /\ \A j \in TailIdx(segments[k].frames) : ~IsSpeech(segments[k].frames[j])

\* A silence-timeout segment whose tail holds a gated frame and a frame the
\* VAD rejected.
C2_Witness ==
    \E k \in SilenceSegments :
        /\ \E j \in TailIdx(segments[k].frames) : BelowGate(segments[k].frames[j])
        /\ \E j \in TailIdx(segments[k].frames) :
               /\ ~BelowGate(segments[k].frames[j])
               /\ ~segments[k].frames[j].vad

\* The shape of the stream fed so far: non-speech, then one run of speech,
\* then non-speech.
SpeechIdx == {k \in 1..Len(fed) : IsSpeech(fed[k])}
FirstSpeech == CHOOSE k \in SpeechIdx : \A m \in SpeechIdx : k <= m
LastSpeech == CHOOSE k \in SpeechIdx : \A m \in SpeechIdx : k >= m
OneRun == SpeechIdx # {} /\ \A k \in FirstSpeech..LastSpeech : k \in SpeechIdx
RunLen == LastSpeech - FirstSpeech + 1
Trailing == Len(fed) - LastSpeech

\* The segmenter holds no segment in progress: capture_speech has returned,
\* or its locals are those of a fresh call.
Idle ==
    \/ ~capturing
    \/ /\ ~recording
       /\ speech_buf = <<>>
       /\ speech_count = 0
       /\ silent_count = 0

MaxSegments == {k \in 1..Len(segments) : segments[k].reason = "max"}

\* C14: speech_count never exceeds max_frames; while capture_speech is
\* still running it is below the limit, so the call returned on the very
\* frame that brought the count to the limit; a max-duration segment ends in
\* that speech frame and holds exactly max_frames speech frames; and a
\* buffer of speech frames only is never longer than max_frames.
C14_MaxDuration ==
    /\ speech_count <= max_frames
    /\ capturing => speech_count < max_frames
    /\ \A k \in MaxSegments :
           LET buf == segments[k].frames
           IN  /\ SpeechFramesIn(buf) = max_frames
               /\ IsSpeech(buf[Len(buf)])
    /\ \A k \in SilenceSegments :
           SpeechFramesIn(segments[k].frames) < max_frames
    /\ (\A j \in 1..Len(speech_buf) : IsSpeech(speech_buf[j]))
       => Len(speech_buf) <= max_frames

\* A stream of speech frames only, longer than the limit: the first call
\* returned its max_frames frames as a max-duration segment, and the next
\* call is buffering the speech that follows.
C14_Witness ==
    /\ Len(fed) > max_frames
    /\ \A j \in 1..Len(fed) : IsSpeech(fed[j])
    /\ segments = << [frames |-> SubSeq(fed, 1, max_frames), reason |-> "max"] >>
    /\ capturing
    /\ speech_count >= 1

(***************************************************************************)
(* wake_match and strip_wake                                               *)
(*                                                                         *)
(* A string is a sequence of one-character strings.  The transcript draws  *)
(* on a lower-case letter, an upper-case letter, the space and a           *)
(* punctuation mark; a wake phrase on the two letters and the space (in    *)
(* _normalize(wake).split() punctuation and space act alike).              *)
(***************************************************************************)
\* Longest transcript drawn.
MaxTextLen == 3

TextChars == {"a", "B", " ", ","}
WakeChars == {"a", "B", " "}

Strings(chars, n) == UNION {[1..k -> chars] : k \in 0..n}

Texts == Strings(TextChars, MaxTextLen)

\* One or two wake phrases (argparse requires at least one) of up to three
\* characters each.
WakeLists == UNION {[1..k -> Strings(WakeChars, 3)] : k \in 1..2}

\* str.lower on one character
Lower(c) ==
    CASE c = "A" -> "a" [] c = "B" -> "b" [] c = "O" -> "o"
      [] c = "P" -> "p" [] c = "S" -> "s" [] c = "T" -> "t"
      [] OTHER -> c

\* the class [,.:;!?\-] of lines 132 and 161
IsPunct(c) == c \in {",", ".", ":", ";", "!", "?", "-"}

\* \s
IsSpace(c) == c = " "

\* the class [\s,.:;!?\-] of line 161, and the set lstrip takes at line 162
IsSep(c) == IsSpace(c) \/ IsPunct(c)

LowerStr(s) == [k \in 1..Len(s) |-> Lower(s[k])]

\* re.sub(r"[,.:;!?\-]+", " ", s): each run of punctuation becomes one space
RECURSIVE SubPunctFrom(_, _)
SubPunctFrom(s, k) ==
    IF k > Len(s) THEN <<>>
    ELSE (IF IsPunct(s[k])
          THEN (IF k > 1 /\ IsPunct(s[k - 1]) THEN <<>> ELSE <<" ">>)
          ELSE <<s[k]>>) \o SubPunctFrom(s, k + 1)

\* str.strip()
RECURSIVE LStripSpace(_)
LStripSpace(s) ==
    IF s # <<>> /\ IsSpace(Head(s)) THEN LStripSpace(Tail(s)) ELSE s

RECURSIVE RStripSpace(_)
RStripSpace(s) ==
    IF s # <<>> /\ IsSpace(s[Len(s)])
    THEN RStripSpace(SubSeq(s, 1, Len(s) - 1))
    ELSE s

\* _normalize, lines 130-132
Normalize(s) == RStripSpace(LStripSpace(SubPunctFrom(LowerStr(s), 1)))

\* str.split(): the maximal runs of non-whitespace, in order
RECURSIVE SplitFrom(_, _, _)
SplitFrom(s, k, cur) ==
    IF k > Len(s)
    THEN (IF cur = <<>> THEN <<>> ELSE <<cur>>)
    ELSE IF IsSpace(s[k])
         THEN (IF cur = <<>> THEN <<>> ELSE <<cur>>) \o SplitFrom(s, k + 1, <<>>)
         ELSE SplitFrom(s, k + 1, Append(cur, s[k]))

Split(s) == SplitFrom(s, 1, <<>>)

\* _normalize_tokens, lines 135-137
NormalizeTokens(s) == Split(Normalize(s))

\* sorted(wake_words, key=len, reverse=True), lines 144 and 154: by the
\* length of the phrase as given, longest first; the sort is stable, so
\* phrases of equal length keep the order of the list.
Before(ws, i, j) ==
    \/ Len(ws[i]) > Len(ws[j])
    \/ Len(ws[i]) = Len(ws[j]) /\ i < j

Rank(ws, i) == 1 + Cardinality({j \in 1..Len(ws) : Before(ws, j, i)})

SortedByLen(ws) ==
    [r \in 1..Len(ws) |-> ws[CHOOSE i \in 1..Len(ws) : Rank(ws, i) = r]]

\* tokens[: len(wake_tokens)] == wake_tokens, lines 146 and 156
TokensMatch(tokens, wake_tokens) ==
    /\ Len(tokens) >= Len(wake_tokens)
    /\ SubSeq(tokens, 1, Len(wake_tokens)) = wake_tokens

\* The first phrase of the sorted list that the transcript matches, as the
\* loops of lines 144-147 and 154-156 find it; 0 when none matches.
FirstMatch(t, ws) ==
    LET sorted == SortedByLen(ws)
        hits == {r \in 1..Len(sorted) :
                    TokensMatch(NormalizeTokens(t), Split(Normalize(sorted[r])))}
    IN  IF hits = {} THEN 0 ELSE CHOOSE r \in hits : \A q \in hits : r <= q

\* wake_match, lines 140-148
wake_match(t, ws) == FirstMatch(t, ws) # 0

\* re.sub(r"^[\s,.:;!?\-]*\S+", "", remaining, count=1), line 161.  The
\* separator class is greedy and \S+ then takes the following run of
\* non-whitespace.  When separators run to the end of the string the class
\* backs off to the last non-whitespace character, which \S+ takes; with no
\* such character the pattern does not match and the string is unchanged.
SepPrefix(s) ==
    LET ends == {k \in 0..Len(s) : \A m \in 1..k : IsSep(s[m])}
    IN  CHOOSE k \in ends : \A m \in ends : k >= m

NonSpaceRun(s, from) ==
    LET ends == {k \in (from - 1)..Len(s) : \A m \in from..k : ~IsSpace(s[m])}
    IN  CHOOSE k \in ends : \A m \in ends : k >= m

RemoveToken(s) ==
    LET p == SepPrefix(s)
        marks == {k \in 1..Len(s) : ~IsSpace(s[k])}
    IN  IF p < Len(s)
        THEN SubSeq(s, NonSpaceRun(s, p + 1) + 1, Len(s))
        ELSE IF marks = {} THEN s
             ELSE SubSeq(s, (CHOOSE k \in marks : \A m \in marks : k >= m) + 1,
                         Len(s))

\* lines 159-161: one substitution per wake token
RECURSIVE RemoveTokens(_, _)
RemoveTokens(s, n) == IF n = 0 THEN s ELSE RemoveTokens(RemoveToken(s), n - 1)

\* remaining.lstrip(" ,.:;!?-"), line 162
RECURSIVE LStripSep(_)
LStripSep(s) == IF s # <<>> /\ IsSep(Head(s)) THEN LStripSep(Tail(s)) ELSE s

\* line 162 for a given number of wake tokens: ... or text
StripTokens(t, n) ==
    LET rest == LStripSep(RemoveTokens(t, n))
    IN  IF rest = <<>> THEN t ELSE rest

\* line 163: no phrase matched
NoMatchTrimmed(t) == LStripSep(t)
NoMatch(t) == t

\* strip_wake, lines 151-163
strip_wake(t, ws) ==
    LET r == FirstMatch(t, ws)
    IN  IF r = 0 THEN NoMatch(t)
        ELSE StripTokens(t, Len(Split(Normalize(SortedByLen(ws)[r]))))

\* wake_match applied to the transcript
WakeMatch ==
    /\ pcw = "heard"
    /\ is_match' = wake_match(text, wake_words)
    /\ pcw' = "checked"
    /\ UNCHANGED <<text, wake_words, stripped>>

\* strip_wake applied to the transcript
StripWake ==
    /\ pcw = "checked"
    /\ stripped' = strip_wake(text, wake_words)
    /\ pcw' = "stripped"
    /\ UNCHANGED <<text, wake_words, is_match>>

(***************************************************************************)
(* Properties of wake_match and strip_wake                                 *)
(***************************************************************************)
WakeTokens(w) == Split(Normalize(w))

ProperPrefix(a, b) == Len(a) < Len(b) /\ SubSeq(b, 1, Len(a)) = a

Matching == {i \in 1..Len(wake_words) :
                TokensMatch(NormalizeTokens(text), WakeTokens(wake_words[i]))}

\* C4: when the transcript matches two configured phrases A and B, A's
\* normalized tokens (at least one) a proper prefix of B's, and no matching
\* phrase has more tokens than B, strip_wake returns the transcript with B's
\* number of leading tokens removed.
C4_LongestStripped ==
    pcw = "stripped" =>
        \A i \in Matching : \A j \in Matching :
            (/\ WakeTokens(wake_words[i]) # <<>>
             /\ ProperPrefix(WakeTokens(wake_words[i]), WakeTokens(wake_words[j]))
             /\ \A m \in Matching :
                    Len(WakeTokens(wake_words[m])) <= Len(WakeTokens(wake_words[j])))
            => stripped = StripTokens(text, Len(WakeTokens(wake_words[j])))

\* C5: when wake_match returned False for the transcript and the phrases,
\* strip_wake returns the transcript unchanged.
C5_NoMatchUnchanged ==
    (pcw = "stripped" /\ ~is_match) => stripped = text

\* strip_wake was applied to an unmatched transcript that opens with a
\* separator and holds a word.
C5_Witness ==
    /\ pcw = "stripped"
    /\ ~is_match
    /\ text # <<>>
    /\ IsSep(text[1])
    /\ NormalizeTokens(text) # <<>>
    /\ stripped = text

(***************************************************************************)
(* speak_response, the synthesis threads, StopWordListener, KeyListener    *)
(***************************************************************************)
\* Calls of speak_response in one behaviour, and the longest chunk list.
MaxSessions == 2
MaxChunks == 3

\* Python's None for a wav, and a container dict without the key "wav".
None == -1
NoKey == -2

Sessions == 1..MaxSessions
ChunkIds == 0..(MaxChunks - 1)

\* What one call of tts_model.generate_audio does: returns audio, returns
\* None, or raises.
SynthOutcomes == {"audio", "none", "raise"}

\* What one call of whisper.transcribe inside _listen leads to: a text that
\* holds a stop word, another text, or an exception.
TranscribeOutcomes == {"stopword", "other", "raise"}

NoMark == [set |-> FALSE, after |-> None, pending |-> FALSE]

\* line 524-525, for the listeners of call s
StopFlag(s) == s >= 1 /\ (stopped[s] \/ pressed[s])

\* line 524-525: should_stop() of the current call
should_stop == StopFlag(session)

\* The chunk whose sd.play came last in the current call, None before any.
LastPlayed == IF played = <<>> THEN None ELSE played[Len(played)].idx

\* The current call's look-ahead synthesis of chunk c is still running.
InFlight(c) ==
    \E t \in 1..Len(threads) :
        /\ threads[t].session = session
        /\ threads[t].chunk = c
        /\ threads[t].state = "running"

\* threading.Event() of lines 381 and 465, cleared again by start() at
\* lines 390 and 471: the flags of a new call's listeners
FreshFlagInherited(s) == s > 1 /\ StopFlag(s - 1)
FreshFlag(s) == FALSE

\* line 548: container = {}
FreshContainerKept == container
FreshContainer == NoKey

\* A listener object of an earlier call lives on only while its thread
\* does: speak_response held the last other reference to it.
Freed(s) == s <= session /\ sl_thread[s] \in {"none", "done"}

\* main line 679 and lines 514-522: the call, the chunk list, and with at
\* least one chunk the two listeners started.  tty is FALSE when
\* termios.tcgetattr raises termios.error and no key thread is started.
\* The listeners of earlier calls whose threads have ended are dropped.
SpeakResponse ==
    /\ pc = "main"
    /\ session < MaxSessions
    /\ \E k \in 0..MaxChunks, tty \in BOOLEAN :
        LET s == session + 1
        IN  /\ session' = s
            /\ num_chunks' = k
            /\ loop_i' = 0
            /\ wav' = None
            /\ next_wav' = None
            /\ next_thread' = 0
            /\ container' = NoKey
            /\ threads' = SelectSeq(threads, LAMBDA t : t.state = "running")
            /\ played' = <<>>
            /\ synth_out' = [c \in ChunkIds |-> "unset"]
            /\ cancel_mark' = NoMark
            /\ UNCHANGED <<active, exc>>
            /\ k = 0 => tty
            /\ stopped' = [q \in Sessions |->
                            IF q = s THEN FreshFlag(s)
                            ELSE IF Freed(q) THEN FALSE ELSE stopped[q]]
            /\ pressed' = [q \in Sessions |->
                            IF q = s THEN FreshFlag(s) ELSE FALSE]
            /\ sl_running' = [sl_running EXCEPT ![s] = (k > 0)]
            /\ kl_running' = [kl_running EXCEPT ![s] = (k > 0)]
            /\ sl_thread' = [q \in Sessions |->
                              IF q = s
                              THEN (IF k > 0 THEN "started" ELSE "none")
                              ELSE IF Freed(q) THEN "none" ELSE sl_thread[q]]
            /\ kl_thread' = [q \in Sessions |->
                              IF q = s /\ k > 0 /\ tty THEN "listening"
                              ELSE "none"]
            /\ pc' = (IF k = 0 THEN "main" ELSE "synth0")

\* line 529-531: chunk 0 is synthesized on the main thread
Synth0 ==
    /\ pc = "synth0"
    /\ \E o \in SynthOutcomes :
        /\ synth_out' = [synth_out EXCEPT ![0] = o]
        /\ IF o = "raise"
           THEN /\ exc' = TRUE
                /\ pc' = "stop_key"
                /\ UNCHANGED <<wav, next_wav, next_thread, loop_i>>
           ELSE /\ wav' = (IF o = "audio" THEN 0 ELSE None)
                /\ next_wav' = None
                /\ next_thread' = 0
                /\ loop_i' = 0
                /\ pc' = "top"
                /\ exc' = FALSE
    /\ UNCHANGED <<session, num_chunks, container, threads, active, played, cancel_mark>>
    /\ UNCHANGED listenerVars

\* lines 546-559: start the synthesis of the next chunk in the background,
\* then skip the chunk when w, the wav to play, is None
StartNext(w) ==
    /\ IF loop_i + 1 < num_chunks
       THEN /\ container' = FreshContainer
            /\ threads' = Append(threads, [session |-> session,
                                           chunk |-> loop_i + 1,
                                           state |-> "running"])
            /\ next_thread' = Len(threads) + 1
       ELSE /\ next_thread' = 0
            /\ UNCHANGED <<container, threads>>
    /\ IF w = None
       THEN loop_i' = loop_i + 1 /\ pc' = "top"
       ELSE loop_i' = loop_i /\ pc' = "play"

\* lines 533-538: the head of the for loop and the first should_stop();
\* for chunk 0 there is no join and lines 546-559 follow
LoopTopNoCheck ==
    /\ pc = "top"
    /\ IF loop_i >= num_chunks
       THEN /\ pc' = "stop_key"
            /\ UNCHANGED <<loop_i, next_thread, container, threads>>
       ELSE IF loop_i > 0
            THEN /\ pc' = "join_top"
                 /\ UNCHANGED <<loop_i, next_thread, container, threads>>
            ELSE StartNext(wav)
    /\ UNCHANGED <<session, num_chunks, wav, next_wav, active, exc, played,
                   synth_out, cancel_mark>>
    /\ UNCHANGED listenerVars

LoopTop ==
    /\ pc = "top"
    /\ IF loop_i >= num_chunks
       THEN /\ pc' = "stop_key"
            /\ UNCHANGED <<active, loop_i, next_thread, container, threads>>
       ELSE IF should_stop
            THEN /\ pc' = "stop_key"
                 /\ active' = FALSE
                 /\ UNCHANGED <<loop_i, next_thread, container, threads>>
            ELSE IF loop_i > 0
                 THEN /\ pc' = "join_top"
                      /\ UNCHANGED <<active, loop_i, next_thread, container,
                                     threads>>
                 ELSE StartNext(wav) /\ UNCHANGED active
    /\ UNCHANGED <<session, num_chunks, wav, next_wav, exc, played, synth_out,
                   cancel_mark>>
    /\ UNCHANGED listenerVars

\* lines 540-559: wait for the background synthesis, take next_wav, then
\* lines 546-559
JoinTop ==
    /\ pc = "join_top"
    /\ next_thread # 0 => threads[next_thread].state = "done"
    /\ wav' = next_wav
    /\ StartNext(next_wav)
    /\ UNCHANGED <<session, num_chunks, next_wav, active, exc, played,
                   synth_out, cancel_mark>>
    /\ UNCHANGED listenerVars

\* lines 561-567: sd.play
Play ==
    /\ pc = "play"
    /\ active' = TRUE
    /\ played' = Append(played, [idx |-> loop_i, wav |-> wav])
    /\ pc' = "poll"
    /\ UNCHANGED <<session, num_chunks, loop_i, wav, next_wav, next_thread, container,
                   threads, exc, synth_out, cancel_mark>>
    /\ UNCHANGED listenerVars

\* lines 569-575: the poll loop leaves when the stream is no longer active,
\* or stops it when should_stop() is true (otherwise it sleeps 50 ms)
Poll ==
    /\ pc = "poll"
    /\ ~active \/ should_stop
    /\ active' = FALSE
    /\ pc' = "after"
    /\ UNCHANGED <<session, num_chunks, loop_i, wav, next_wav, next_thread, container,
                   threads, exc, played, synth_out, cancel_mark>>
    /\ UNCHANGED listenerVars

\* the audio device: the chunk has played to its end
PlaybackEnds ==
    /\ active
    /\ active' = FALSE
    /\ UNCHANGED <<session, pc, num_chunks, loop_i, wav, next_wav, next_thread, container,
                   threads, exc, played, synth_out, cancel_mark>>
    /\ UNCHANGED listenerVars

\* lines 577-580: the second should_stop(), then on to the join
AfterPlay ==
    /\ pc = "after"
    /\ IF should_stop
       THEN pc' = "stop_key" /\ loop_i' = loop_i
       ELSE IF next_thread # 0
            THEN pc' = "join_end" /\ loop_i' = loop_i
            ELSE pc' = "top" /\ loop_i' = loop_i + 1
    /\ UNCHANGED <<session, num_chunks, wav, next_wav, next_thread, container, threads,
                   active, exc, played, synth_out, cancel_mark>>
    /\ UNCHANGED listenerVars

\* lines 581-582: next_thread.join(); next_wav = container.get("wav")
JoinEnd ==
    /\ pc = "join_end"
    /\ threads[next_thread].state = "done"
    /\ next_wav' = (IF container = NoKey THEN None ELSE container)
    /\ loop_i' = loop_i + 1
    /\ pc' = "top"
    /\ UNCHANGED <<session, num_chunks, wav, next_thread, container, threads, active,
                   exc, played, synth_out, cancel_mark>>
    /\ UNCHANGED listenerVars

\* lines 550-551: a synthesis thread finishes.  Its result goes to the
\* container of the call that started it; a thread left over from an earlier
\* call writes to that call's dict, which nothing reads any more, and is
\* dropped from the list.
SynthDone ==
    \E t \in 1..Len(threads), o \in SynthOutcomes :
        /\ threads[t].state = "running"
        /\ IF threads[t].session = session
           THEN /\ threads' = [threads EXCEPT ![t].state = "done"]
                /\ synth_out' = [synth_out EXCEPT ![threads[t].chunk] = o]
                /\ container' = (IF o = "audio" THEN threads[t].chunk
                                 ELSE IF o = "none" THEN None
                                 ELSE container)
                /\ UNCHANGED next_thread
           ELSE /\ o = "audio"
                /\ threads' = SubSeq(threads, 1, t - 1)
                                \o SubSeq(threads, t + 1, Len(threads))
                /\ next_thread' = (IF next_thread > t THEN next_thread - 1
                                   ELSE next_thread)
                /\ UNCHANGED <<synth_out, container>>
        /\ UNCHANGED <<session, pc, num_chunks, loop_i, wav, next_wav, active,
                       exc, played, cancel_mark>>
        /\ UNCHANGED listenerVars

\* line 584 and lines 481-488: key_listener.stop() clears _running
StopKey ==
    /\ pc = "stop_key"
    /\ kl_running' = [kl_running EXCEPT ![session] = FALSE]
    /\ pc' = "join_key"
    /\ UNCHANGED playerVarsButPc
    /\ UNCHANGED <<stopped, sl_running, sl_thread, pressed, kl_thread>>

\* lines 489-491: join(timeout=0.5) on the key thread, whose loop comes
\* round every 50 ms; then line 585 and line 396: stop_listener.stop()
\* clears _running
JoinKey ==
    /\ pc = "join_key"
    /\ kl_thread[session] \in {"none", "done"}
    /\ sl_running' = [sl_running EXCEPT ![session] = FALSE]
    /\ pc' = "join_sl"
    /\ UNCHANGED playerVarsButPc
    /\ UNCHANGED <<stopped, sl_thread, pressed, kl_running, kl_thread>>

\* the end of the finally block: return, or the exception goes on through
\* main, which catches nothing
Leave == pc' = (IF exc THEN "crashed" ELSE "main")

\* lines 397-399: join(timeout=1) returns because the thread has ended
JoinSL ==
    /\ pc = "join_sl"
    /\ sl_thread[session] = "done"
    /\ Leave
    /\ UNCHANGED playerVarsButPc
    /\ UNCHANGED listenerVars

\* lines 397-399: join(timeout=1) returns on its timeout.  The listener's
\* loop comes round every 100 ms except inside whisper.transcribe, whose
\* duration the listener does not bound.
JoinSLTimeout ==
    /\ pc = "join_sl"
    /\ sl_thread[session] = "transcribing"
    /\ Leave
    /\ UNCHANGED playerVarsButPc
    /\ UNCHANGED listenerVars

\* speak_response of call s is still running.
Live(s) == s = session /\ pc # "main" /\ pc # "crashed"

\* The mark of the moment should_stop() turns true during call s.
MarkCancel(s) ==
    IF Live(s) /\ ~should_stop
    THEN cancel_mark' = [set |-> TRUE, after |-> LastPlayed,
                         pending |-> InFlight(LastPlayed + 1)]
    ELSE UNCHANGED cancel_mark

\* lines 409-425: the listener thread opens its capture stream, or returns
\* when that raises
SLOpen ==
    \E s \in Sessions, ok \in BOOLEAN :
        /\ sl_thread[s] = "started"
        /\ sl_thread' = [sl_thread EXCEPT ![s] =
                            IF ok THEN "listening" ELSE "done"]
        /\ UNCHANGED playerVars
        /\ UNCHANGED <<stopped, sl_running, pressed, kl_running, kl_thread>>

\* lines 426-444: the loop runs, frames are classified, and a segment
\* reaches the transcription check
SLSegment ==
    \E s \in Sessions :
        /\ sl_thread[s] = "listening"
        /\ sl_running[s]
        /\ ~stopped[s]
        /\ sl_thread' = [sl_thread EXCEPT ![s] = "transcribing"]
        /\ UNCHANGED playerVars
        /\ UNCHANGED <<stopped, sl_running, pressed, kl_running, kl_thread>>

\* lines 444-455: whisper.transcribe returns or raises; on a stop word the
\* flag is set and the thread returns, closing its stream.  Otherwise the
\* counters are cleared and the loops of lines 429 and 426 go on, or end the
\* thread when _running has been cleared.  A thread that outlived an
\* earlier call takes its listener object with it.
SLTranscribed ==
    \E s \in Sessions, o \in TranscribeOutcomes :
        /\ sl_thread[s] = "transcribing"
        /\ IF o = "stopword"
           THEN /\ stopped' = [stopped EXCEPT ![s] = (s = session)]
                /\ sl_thread' = [sl_thread EXCEPT ![s] =
                                    IF s = session THEN "done" ELSE "none"]
                /\ MarkCancel(s)
           ELSE /\ sl_thread' = [sl_thread EXCEPT ![s] =
                                    IF sl_running[s] THEN "listening"
                                    ELSE IF s = session THEN "done"
                                    ELSE "none"]
                /\ UNCHANGED <<stopped, cancel_mark>>
        /\ UNCHANGED <<session, pc, num_chunks, loop_i, wav, next_wav,
                       next_thread, container, threads, active, exc, played,
                       synth_out>>
        /\ UNCHANGED <<sl_running, pressed, kl_running, kl_thread>>

\* lines 426 and 429: the loop sees _running cleared and the thread ends,
\* closing its stream
SLExit ==
    \E s \in Sessions :
        /\ sl_thread[s] = "listening"
        /\ ~sl_running[s] \/ stopped[s]
        /\ sl_thread' = [sl_thread EXCEPT ![s] =
                            IF s = session THEN "done" ELSE "none"]
        /\ UNCHANGED playerVars
        /\ UNCHANGED <<stopped, sl_running, pressed, kl_running, kl_thread>>

\* lines 495-499: the key thread reads Escape
KLEscape ==
    \E s \in Sessions :
        /\ kl_thread[s] = "listening"
        /\ pressed' = [pressed EXCEPT ![s] = TRUE]
        /\ kl_thread' = [kl_thread EXCEPT ![s] = "done"]
        /\ MarkCancel(s)
        /\ UNCHANGED <<session, pc, num_chunks, loop_i, wav, next_wav, next_thread,
                       container, threads, active, exc, played, synth_out>>
        /\ UNCHANGED <<stopped, sl_running, sl_thread, kl_running>>

\* line 494: the key thread sees _running cleared and ends
KLExit ==
    \E s \in Sessions :
        /\ kl_thread[s] = "listening"
        /\ ~kl_running[s]
        /\ kl_thread' = [kl_thread EXCEPT ![s] = "done"]
        /\ UNCHANGED playerVars
        /\ UNCHANGED <<stopped, sl_running, sl_thread, pressed, kl_running>>

(***************************************************************************)
(* Properties of speak_response                                            *)
(***************************************************************************)
PlayedIdx == {played[k].idx : k \in 1..Len(played)}

\* speak_response has returned to main from a call that had chunks.
Returned == pc = "main" /\ session >= 1 /\ num_chunks >= 1

\* C6: when should_stop() turns true after chunk i began playing and while
\* the look-ahead synthesis of chunk i+1 is still running, no chunk after i
\* ever begins playing in that call, no exception is raised, and once the
\* call has returned the output stream is no longer active (chunk i played
\* out or was cut by the poll); the synthesis result is never played.
C6_CancelDuringLookAhead ==
    (cancel_mark.set /\ cancel_mark.after >= 0 /\ cancel_mark.pending)
    => /\ \A c \in PlayedIdx : c <= cancel_mark.after
       /\ ~exc
       /\ pc # "crashed"
       /\ pc = "main" => ~active

\* Three chunks, cancellation while chunk 0 is the last one played and chunk
\* 1 is being synthesized; the synthesis ended with audio, the call has
\* returned, and only chunk 0 was played.
C6_Witness ==
    /\ Returned
    /\ num_chunks = 3
    /\ cancel_mark.set
    /\ cancel_mark.after = 0
    /\ cancel_mark.pending
    /\ synth_out[1] = "audio"
    /\ PlayedIdx = {0}

\* C7: when a call of speak_response returns without should_stop() having
\* turned true, every chunk whose synthesis produced audio was played,
\* whatever happened to the other chunks.
C7_GoodChunksPlayed ==
    (Returned /\ ~cancel_mark.set)
    => \A c \in 0..(num_chunks - 1) : synth_out[c] = "audio" => c \in PlayedIdx

\* C8: the sd.play calls of one call of speak_response go through strictly
\* increasing chunk indexes (so no chunk is played twice), each plays the
\* audio synthesized from its own chunk, and a call that returns without
\* cancellation after every synthesis produced audio has played every chunk
\* once, in order.
C8_InOrderOwnAudio ==
    /\ \A k \in 1..Len(played) :
           /\ played[k].idx \in 0..(num_chunks - 1)
           /\ played[k].wav = played[k].idx
    /\ \A k \in 1..(Len(played) - 1) : played[k].idx < played[k + 1].idx
    /\ (/\ Returned
        /\ ~cancel_mark.set
        /\ \A c \in 0..(num_chunks - 1) : synth_out[c] = "audio")
       => played = [k \in 1..num_chunks |-> [idx |-> k - 1, wav |-> k - 1]]

\* A call with three chunks has returned, uncancelled, every synthesis
\* having produced audio, and three chunks were played.
C8_Witness ==
    /\ Returned
    /\ num_chunks = 3
    /\ ~cancel_mark.set
    /\ \A c \in 0..2 : synth_out[c] = "audio"
    /\ Len(played) = 3

\* C9: both listeners are running before chunk 0 is synthesized, and when
\* speak_response has returned or raised, the stop-word listener thread of
\* that call has ended (its capture stream closed with it) and so has the
\* key listener thread.
C9_ListenersStoppedOnExit ==
    /\ pc = "synth0" =>
           /\ sl_thread[session] # "none"
           /\ sl_running[session]
           /\ kl_running[session]
    /\ ((pc = "main" \/ pc = "crashed") /\ session >= 1) =>
           /\ sl_thread[session] \in {"none", "done"}
           /\ kl_thread[session] \in {"none", "done"}

\* C10: should_stop() is false when a call of speak_response begins, and
\* once true it stays true for as long as that call is the current one.
C10_SessionScoped ==
    [][/\ session' # session => ~should_stop'
       /\ (should_stop /\ session' = session) => should_stop']_vars

\* A second call has begun with should_stop() false while a synthesis thread
\* of the first call, left behind by its cancellation, is still running.
C10_Witness ==
    /\ session = 2
    /\ pc = "synth0"
    /\ ~should_stop
    /\ \E t \in 1..Len(threads) : threads[t].session = 1

\* The look-ahead synthesis threads that were started and have not ended.
Outstanding == {t \in 1..Len(threads) : threads[t].state = "running"}

\* C16: at every moment at most one look-ahead synthesis thread is
\* outstanding, across calls of speak_response as well as within one.
C16_OneSynthOutstanding == Cardinality(Outstanding) <= 1

\* C17: no exception raised by a synthesis call leaves the try block of
\* speak_response, so none propagates out of it and ends the main loop.
C17_SynthRaiseAbsorbed ==
    /\ \A c \in ChunkIds : (synth_out[c] = "raise" /\ pc # "synth0") => ~exc
    /\ pc # "crashed"

\* C22: no chunk begins playback in a state where the cancellation signal
\* is already set: whatever the listeners did before, a step that calls
\* sd.play is taken with should_stop() false.
C22_NoPlayAfterCancel ==
    [][Len(played') > Len(played) => ~should_stop]_vars

\* speak_response is not running: it has not been called, has returned,
\* or an exception has left it.
Left == pc = "main" \/ pc = "crashed"

\* The threads of both listeners of the current call have ended and their
\* _running flags are cleared.
ListenersStopped ==
    /\ sl_thread[session] \in {"none", "done"}
    /\ kl_thread[session] \in {"none", "done"}
    /\ ~sl_running[session]
    /\ ~kl_running[session]

\* C23: under fair scheduling, every synthesis call coming back,
\* speak_response always terminates; a poll iteration that finds the
\* cancellation signal set leaves the output stream stopped, and audio is
\* only ever active inside the poll loop; once the signal is set
\* speak_response is eventually left, and when it returns with the signal
\* set both listeners are stopped.
C23_TerminatesAndStops ==
    /\ [](~Left => <>Left)
    /\ [](active => pc = "poll")
    /\ [][(pc = "poll" /\ should_stop /\ pc' # "poll") => ~active']_vars
    /\ [](should_stop => <>Left)
    /\ [][(should_stop /\ pc # "main" /\ pc' = "main")
            => ListenersStopped']_vars

(***************************************************************************)
(* StopWordListener._listen, frame by frame                                *)
(*                                                                         *)
(* The listener is fed the frames capture_speech is fed, one frame to both *)
(* in one step, so that what the two loops emit can be compared.           *)
(***************************************************************************)
\* silence_frames of line 423 (500 // FRAME_MS, 25 in the source) and the
\* literal 3 of line 439, scaled down to the values capture_speech has
\* here.
stop_silence_frames == 2
stop_min_speech == 2

\* STOP_WORDS, line 34
STOP_WORDS ==
    { <<"s", "t", "o", "p">>,
      <<"s", "h", "u", "s", "h">>,
      <<"s", "h", "u", "t", " ", "u", "p">>,
      <<"q", "u", "i", "e", "t">>,
      <<"e", "n", "o", "u", "g", "h">> }

\* The texts whisper.transcribe may return to the listener: "Stop",
\* " nonSTOP" (a stop word inside another word), "top" and "st op".
StopTexts ==
    { <<"S", "t", "o", "p">>,
      <<" ", "n", "o", "n", "S", "T", "O", "P">>,
      <<"t", "o", "p">>,
      <<"s", "t", " ", "o", "p">> }

\* What whisper.transcribe does at line 444: returns a text, or raises.
Transcriptions ==
    [raised : {FALSE}, text : StopTexts] \cup {[raised |-> TRUE, text |-> <<>>]}

\* sw in text: sw occurs in text as a contiguous run
Contains(t, sw) ==
    \E k \in 0..(Len(t) - Len(sw)) : SubSeq(t, k + 1, k + Len(sw)) = sw

\* line 445: .strip().lower()
StopText(t) == LowerStr(RStripSpace(LStripSpace(t)))

\* line 448: any(sw in text for sw in STOP_WORDS)
HasStopWord(t) == \E sw \in STOP_WORDS : Contains(StopText(t), sw)

\* line 450: return after the flag is set
AfterStopWordGoOn == "open"
AfterStopWord == "done"

\* lines 451-452: except Exception: pass
TranscribeRaised == "open"

\* lines 389-393 and 409-425: start(), and the thread opening its stream;
\* when RawInputStream raises the thread returns at once
SWStart ==
    /\ sw_pc = "idle"
    /\ \E ok \in BOOLEAN :
        sw_pc' = (IF ok THEN "open" ELSE "exit")
    /\ sw_stopped' = FALSE
    /\ sw_running' = TRUE
    /\ sw_frames' = <<>>
    /\ sw_speech_count' = 0
    /\ sw_silent_count' = 0
    /\ UNCHANGED sw_checks

\* lines 430-455: one frame popped and classified
StopListenerFrame(f) ==
    /\ sw_pc = "open"
    /\ sw_running
    /\ IF f.vad
       THEN /\ sw_frames' = Append(sw_frames, f)
            /\ sw_speech_count' = sw_speech_count + 1
            /\ sw_silent_count' = 0
            /\ UNCHANGED <<sw_pc, sw_running, sw_stopped, sw_checks>>
       ELSE IF sw_speech_count > 0
       THEN LET buf == Append(sw_frames, f)
                sc  == sw_silent_count + 1
            IN  IF sc >= stop_silence_frames /\ sw_speech_count >= stop_min_speech
                THEN \E r \in Transcriptions :
                       /\ sw_checks' = Append(sw_checks,
                              [frames |-> buf, raised |-> r.raised,
                               text |-> r.text])
                       /\ UNCHANGED sw_running
                       /\ IF ~r.raised /\ HasStopWord(r.text)
                          THEN /\ sw_stopped' = TRUE
                               /\ sw_pc' = AfterStopWord
                               /\ sw_frames' = buf
                               /\ sw_silent_count' = sc
                               /\ UNCHANGED sw_speech_count
                          ELSE /\ sw_pc' = (IF r.raised THEN TranscribeRaised
                                            ELSE "open")
                               /\ sw_frames' = <<>>
                               /\ sw_speech_count' = 0
                               /\ sw_silent_count' = 0
                               /\ UNCHANGED sw_stopped
                ELSE /\ sw_frames' = buf
                     /\ sw_silent_count' = sc
                     /\ UNCHANGED <<sw_pc, sw_running, sw_stopped,
                                    sw_speech_count, sw_checks>>
       ELSE UNCHANGED swVars

\* line 431: vad.is_speech raises; nothing in _listen catches it, the with
\* block closes the stream and the thread ends
SWVadRaises ==
    /\ sw_pc = "open"
    /\ sw_running
    /\ sw_pc' = "dead"
    /\ UNCHANGED <<sw_running, sw_stopped, sw_frames, sw_speech_count,
                   sw_silent_count, sw_checks>>

\* line 396: stop() clears _running
SWStop ==
    /\ sw_pc # "idle"
    /\ sw_running
    /\ sw_running' = FALSE
    /\ UNCHANGED <<sw_pc, sw_stopped, sw_frames, sw_speech_count,
                   sw_silent_count, sw_checks>>

\* lines 426 and 429: the loops end once _running is cleared or the flag is
\* set
SWExit ==
    /\ sw_pc = "open"
    /\ ~sw_running \/ sw_stopped
    /\ sw_pc' = "exit"
    /\ UNCHANGED <<sw_running, sw_stopped, sw_frames, sw_speech_count,
                   sw_silent_count, sw_checks>>

InitListen ==
    /\ sw_pc = "idle"
    /\ sw_running = FALSE
    /\ sw_stopped = FALSE
    /\ sw_frames = <<>>
    /\ sw_speech_count = 0
    /\ sw_silent_count = 0
    /\ sw_checks = <<>>

(***************************************************************************)
(* Properties of the stop-word listener                                    *)
(***************************************************************************)
\* The text holds a configured stop word at some position, letter case
\* aside.
SaysStop(t) ==
    \E sw \in STOP_WORDS, i \in 1..Len(t) :
        /\ i + Len(sw) - 1 <= Len(t)
        /\ \A j \in 1..Len(sw) : Lower(t[i + j - 1]) = sw[j]

\* The k-th transcription check came back with a text that holds a stop
\* word.
Matched(k) == ~sw_checks[k].raised /\ SaysStop(sw_checks[k].text)

\* C11: the listener's flag is set exactly when the last segment it had
\* transcribed came back with a text holding a stop word, case aside; no
\* earlier check matched, so the first match set it; and with the flag set
\* the thread has returned, so no segment is transcribed after the match.
C11_StopWordOnly ==
    /\ sw_stopped <=> (sw_checks # <<>> /\ Matched(Len(sw_checks)))
    /\ \A k \in 1..(Len(sw_checks) - 1) : ~Matched(k)
    /\ sw_stopped => sw_pc = "done"

\* A first segment was transcribed as "top" and the loop went on; the
\* second came back as " nonSTOP", the flag is set and the thread has
\* returned.
C11_Witness ==
    /\ Len(sw_checks) = 2
    /\ sw_checks[1].text = <<"t", "o", "p">>
    /\ ~sw_checks[1].raised
    /\ sw_checks[2].text = <<" ", "n", "o", "n", "S", "T", "O", "P">>
    /\ sw_stopped
    /\ sw_pc = "done"

\* C15: with the listener's silence timeout and minimum speech equal to
\* those of capture_speech, and both loops fed the same classified frames,
\* the segments the listener has handed to transcription are at every
\* moment the segments capture_speech has returned.
C15_SameSegments ==
    (stop_silence_frames = silence_frames /\ stop_min_speech = min_speech_frames)
    => [k \in 1..Len(sw_checks) |-> sw_checks[k].frames]
       = [k \in 1..Len(segments) |-> segments[k].frames]

\* C19: no failure of the VAD or of the transcription ends the listener
\* thread, and a check that raised has not set the flag.
C19_FailuresNonFatal ==
    /\ sw_pc # "dead"
    /\ \A k \in 1..Len(sw_checks) :
           sw_checks[k].raised => ~(sw_stopped /\ k = Len(sw_checks))
    /\ (sw_checks # <<>> /\ sw_checks[Len(sw_checks)].raised /\ sw_running)
       => sw_pc = "open"

(***************************************************************************)
(* run_llm and the main loop                                               *)
(***************************************************************************)
\* Passes of the main loop in one behaviour.
MaxUtterances == 2

\* args.wake of the run
MainWake == << <<"a">>, <<"a", " ", "B">> >>

\* What the LLM command may have written to stdout.
Stdouts == {<<>>, <<" ">>, <<"a">>, <<" ", "a", " ">>}

\* How subprocess.run ends at lines 234-239: the command exits with status
\* 0 or with another status (subprocess.run is called without check=True,
\* so neither raises), the timeout of 180 s fires, or the call raises
\* otherwise (the command cannot be started, the output cannot be decoded).
LLMOutcomes ==
    [kind : {"exit0", "nonzero"}, stdout : Stdouts]
    \cup [kind : {"timeout", "oserror"}, stdout : {<<>>}]

\* The outcomes in which the LLM invocation did not succeed.
LLMFailed(o) == o.kind \in {"nonzero", "timeout", "oserror"}

\* str.strip()
Strip(t) == RStripSpace(LStripSpace(t))

\* run_llm, lines 231-244
run_llm(o) ==
    IF o.kind \in {"timeout", "oserror"} THEN <<>> ELSE Strip(o.stdout)

NoLog == [stt |-> "none", llm |-> "none", asked |-> FALSE, spoke |-> FALSE]

\* lines 636-641: the head of the loop; with busy set it sleeps and comes
\* back, otherwise it calls capture_speech
MainLoop ==
    /\ mpc = "loop"
    /\ IF busy
       THEN UNCHANGED <<mpc, utterances, log>>
       ELSE /\ utterances < MaxUtterances
            /\ utterances' = utterances + 1
            /\ mpc' = "capture"
            /\ log' = NoLog
    /\ UNCHANGED <<busy, heard, response>>

\* lines 641-645: capture_speech returns a segment
MainCaptured ==
    /\ mpc = "capture"
    /\ mpc' = "transcribe"
    /\ UNCHANGED <<busy, heard, response, utterances, log>>

\* lines 646-647: whisper.transcribe returns a text, which is stripped, or
\* raises; nothing in main catches the exception
MainTranscribe ==
    /\ mpc = "transcribe"
    /\ \/ \E t \in Texts :
            /\ heard' = Strip(t)
            /\ log' = [log EXCEPT !.stt = "ok"]
            /\ mpc' = "wake"
       \/ /\ log' = [log EXCEPT !.stt = "raised"]
          /\ mpc' = "terminated"
          /\ UNCHANGED heard
    /\ UNCHANGED <<busy, response, utterances>>

\* lines 652-660: the wake test, strip_wake, and busy set for a query
MainWakeCheck ==
    /\ mpc = "wake"
    /\ IF heard = <<>> \/ ~wake_match(heard, MainWake)
       THEN mpc' = "loop" /\ UNCHANGED <<heard, busy>>
       ELSE /\ heard' = strip_wake(heard, MainWake)
            /\ IF heard' = <<>>
               THEN mpc' = "loop" /\ UNCHANGED busy
               ELSE mpc' = "llm" /\ busy' = TRUE
    /\ UNCHANGED <<response, utterances, log>>

\* lines 663-669: typing sounds around the call of run_llm
MainAsk ==
    /\ mpc = "llm"
    /\ \E o \in LLMOutcomes :
        /\ response' = run_llm(o)
        /\ log' = [log EXCEPT !.llm = o.kind, !.asked = TRUE]
    /\ mpc' = "respond"
    /\ UNCHANGED <<busy, heard, utterances>>

\* lines 671-676: an empty response ends the pass
MainRespond ==
    /\ mpc = "respond"
    /\ IF response = <<>>
       THEN busy' = FALSE /\ mpc' = "loop"
       ELSE mpc' = "speak" /\ UNCHANGED busy
    /\ UNCHANGED <<heard, response, utterances, log>>

\* lines 679-681: speak_response returns, or an exception leaves it (the
\* synthesis of chunk 0 raised) and ends main
MainSpeak ==
    /\ mpc = "speak"
    /\ log' = [log EXCEPT !.spoke = TRUE]
    /\ \E raised \in BOOLEAN :
        IF raised
        THEN mpc' = "terminated" /\ UNCHANGED busy
        ELSE mpc' = "loop" /\ busy' = FALSE
    /\ UNCHANGED <<heard, response, utterances>>

InitMain ==
    /\ mpc = "loop"
    /\ busy = FALSE
    /\ heard = <<>>
    /\ response = <<>>
    /\ utterances = 0
    /\ log = NoLog

(***************************************************************************)
(* Properties of run_llm and the main loop                                 *)
(***************************************************************************)
\* C12: after an LLM invocation that timed out or failed, the response is
\* empty; and a pass whose response was empty has not called
\* speak_response (so no audio, no listener), has cleared busy, and is back
\* at the head of the loop or in the next capture_speech, not terminated.
C12_LLMFailureSilent ==
    /\ (log.asked /\ LLMFailed([kind |-> log.llm, stdout |-> <<>>]))
       => response = <<>>
    /\ (log.asked /\ response = <<>> /\ mpc # "respond")
       => /\ ~log.spoke
          /\ ~busy
          /\ mpc = "loop"

\* C18: when whisper.transcribe fails on the segment, the main loop does
\* not terminate: no LLM call is made in that pass and the loop is back at
\* its head.
C18_STTFailureDiscarded ==
    log.stt = "raised" => (mpc = "loop" /\ ~log.asked /\ ~busy)

\* What lines 159-162 leave of a matched transcript before the fallback of
\* line 162: the matched phrase's tokens removed, then the leading
\* separators.
Remaining(t, ws) ==
    LStripSep(RemoveTokens(t,
        Len(Split(Normalize(SortedByLen(ws)[FirstMatch(t, ws)])))))

\* The transcript is the wake phrase and nothing else.
WakeOnly(t, ws) ==
    t # <<>> /\ wake_match(t, ws) /\ Remaining(t, ws) = <<>>

\* C21: when the transcript matches a wake phrase and nothing remains
\* after the phrase is stripped, strip_wake yields the empty text and the
\* main loop goes back to its head without invoking the LLM.
C21_WakeOnlyDiscarded ==
    [][(mpc = "wake" /\ WakeOnly(heard, MainWake))
        => (heard' = <<>> /\ mpc' = "loop" /\ ~busy')]_vars

(***************************************************************************)
(* split_sentences                                                         *)
(*                                                                         *)
(* A response is a run of pieces: words, markdown marks, line breaks.      *)
(***************************************************************************)
\* Pieces in one response.
MaxPieces == 4

\* The back quote of lines 174-175, one character of the response.
BackQuote == "BQ"

Pieces ==
    { <<"a", "b", "c">>, <<"A", "b", "d">>, <<"x">>, <<".", " ">>, <<" ">>,
      <<"\n">>, <<"#", " ">>, <<"-", " ">>, <<"1", ".", " ">>, <<"*">>,
      <<BackQuote>>, <<"h", "t", "t", "p", ":", "/", "/", "u">> }

\* The concatenation of a sequence of strings.
RECURSIVE Flat(_)
Flat(ss) == IF ss = <<>> THEN <<>> ELSE Head(ss) \o Flat(Tail(ss))

Responses == {Flat(ps) : ps \in UNION {[1..k -> Pieces] : k \in 0..MaxPieces}}

\* \s, and what str.strip() takes off
IsWs(c) == c \in {" ", "\n", "\t"}

\* \d
IsDigit(c) == c \in {"0", "1", "2", "3", "4", "5", "6", "7", "8", "9"}

\* [A-Z]
IsUpper(c) ==
    c \in {"A", "B", "C", "D", "E", "F", "G", "H", "I", "J", "K", "L", "M",
           "N", "O", "P", "Q", "R", "S", "T", "U", "V", "W", "X", "Y", "Z"}

\* [.!?]
IsStop(c) == c \in {".", "!", "?"}

RECURSIVE LStripWs(_)
LStripWs(t) == IF t # <<>> /\ IsWs(Head(t)) THEN LStripWs(Tail(t)) ELSE t

RECURSIVE RStripWs(_)
RStripWs(t) ==
    IF t # <<>> /\ IsWs(t[Len(t)])
    THEN RStripWs(SubSeq(t, 1, Len(t) - 1))
    ELSE t

\* str.strip()
StripWs(t) == RStripWs(LStripWs(t))

\* re.sub of one literal character by nothing (lines 172, 173, 175)
RemoveAll(t, c) == SelectSeq(t, LAMBDA x : x # c)

\* The first position at or after k that holds c, 0 when there is none.
RECURSIVE Find(_, _, _)
Find(t, c, k) ==
    IF k > Len(t) THEN 0 ELSE IF t[k] = c THEN k ELSE Find(t, c, k + 1)

\* line 174: re.sub of a back-quoted span by nothing, from position k on
RECURSIVE RemoveCodeFrom(_, _)
RemoveCodeFrom(t, k) ==
    LET i == Find(t, BackQuote, k)
        j == IF i = 0 THEN 0 ELSE Find(t, BackQuote, i + 1)
    IN  IF j = 0
        THEN SubSeq(t, k, Len(t))
        ELSE SubSeq(t, k, i - 1) \o RemoveCodeFrom(t, j + 1)

StartsWith(t, k, p) ==
    k + Len(p) - 1 <= Len(t) /\ SubSeq(t, k, k + Len(p) - 1) = p

\* The last position of the run of non-whitespace that starts at k, k - 1
\* when there is none.
RECURSIVE NonWsEnd(_, _)
NonWsEnd(t, k) ==
    IF k <= Len(t) /\ ~IsWs(t[k]) THEN NonWsEnd(t, k + 1) ELSE k - 1

\* The last position of the run of whitespace that starts at k.
RECURSIVE WsEnd(_, _)
WsEnd(t, k) ==
    IF k <= Len(t) /\ IsWs(t[k]) THEN WsEnd(t, k + 1) ELSE k - 1

\* Where a match of https?://\S+ beginning at k ends, 0 when none begins
\* there.
UrlEnd(t, k) ==
    LET h == IF StartsWith(t, k, <<"h", "t", "t", "p", "s", ":", "/", "/">>)
             THEN k + 8
             ELSE IF StartsWith(t, k, <<"h", "t", "t", "p", ":", "/", "/">>)
             THEN k + 7
             ELSE 0
    IN  IF h = 0 THEN 0
        ELSE IF NonWsEnd(t, h) >= h THEN NonWsEnd(t, h) ELSE 0

\* line 176: re.sub(r"https?://\S+", "", text), from position k on
RECURSIVE RemoveUrlsFrom(_, _)
RemoveUrlsFrom(t, k) ==
    IF k > Len(t) THEN <<>>
    ELSE IF UrlEnd(t, k) > 0 THEN RemoveUrlsFrom(t, UrlEnd(t, k) + 1)
    ELSE <<t[k]>> \o RemoveUrlsFrom(t, k + 1)

\* lines 172-176
StripMarkdown(t) ==
    RemoveUrlsFrom(
        RemoveAll(RemoveCodeFrom(RemoveAll(t, "*"), 1), BackQuote), 1)

\* line 178: text.split("\n")
RECURSIVE LinesFrom(_, _, _)
LinesFrom(t, k, cur) ==
    IF k > Len(t) THEN <<cur>>
    ELSE IF t[k] = "\n" THEN <<cur>> \o LinesFrom(t, k + 1, <<>>)
    ELSE LinesFrom(t, k + 1, Append(cur, t[k]))

\* line 183: " ".join(buf)
RECURSIVE JoinSp(_)
JoinSp(buf) ==
    IF buf = <<>> THEN <<>>
    ELSE IF Len(buf) = 1 THEN buf[1]
    ELSE buf[1] \o <<" ">> \o JoinSp(Tail(buf))

\* line 184: re.sub(r"\s+", " ", t), from position k on
RECURSIVE CollapseWsFrom(_, _)
CollapseWsFrom(t, k) ==
    IF k > Len(t) THEN <<>>
    ELSE IF IsWs(t[k]) THEN <<" ">> \o CollapseWsFrom(t, WsEnd(t, k) + 1)
    ELSE <<t[k]>> \o CollapseWsFrom(t, k + 1)

\* lines 185, 197, 203, 209 and 222: len(...) >= 3
LongEnoughAlways(t) == TRUE
LongEnough(t) == Len(t) >= 3

Keep(chunks, t) == IF LongEnough(t) THEN Append(chunks, t) ELSE chunks

\* flush(), lines 182-187
Flush(chunks, buf) == Keep(chunks, CollapseWsFrom(StripWs(JoinSp(buf)), 1))

\* The number of characters c at the head of t.
RECURSIVE RunOf(_, _)
RunOf(t, c) == IF t # <<>> /\ Head(t) = c THEN 1 + RunOf(Tail(t), c) ELSE 0

RECURSIVE Digits(_)
Digits(t) == IF t # <<>> /\ IsDigit(Head(t)) THEN 1 + Digits(Tail(t)) ELSE 0

\* line 194: re.match(r"^#+\s", stripped)
IsHeading(l) ==
    RunOf(l, "#") >= 1 /\ RunOf(l, "#") < Len(l) /\ IsWs(l[RunOf(l, "#") + 1])

\* line 200: re.match(r"^[-*]\s", stripped); the third sign of the class,
\* the round bullet, is not in the alphabet of the responses drawn
IsBullet(l) == Len(l) >= 2 /\ l[1] \in {"-", "*"} /\ IsWs(l[2])

\* line 206: re.match(r"^\d+[.)]\s", stripped)
IsNumbered(l) ==
    /\ Digits(l) >= 1
    /\ Digits(l) + 2 <= Len(l)
    /\ l[Digits(l) + 1] \in {".", ")"}
    /\ IsWs(l[Digits(l) + 2])

\* lines 196, 202, 208: the mark and the whitespace after it removed, then
\* strip(); n is the length of the mark
AfterMark(l, n) == StripWs(SubSeq(l, n + 1, Len(l)))

\* lines 189-214: the loop over the lines, and the last flush
RECURSIVE Chunking(_, _, _, _)
Chunking(lines, k, chunks, buf) ==
    IF k > Len(lines) THEN Flush(chunks, buf)
    ELSE LET l == StripWs(lines[k])
         IN  IF l = <<>>
             THEN Chunking(lines, k + 1, Flush(chunks, buf), <<>>)
             ELSE IF IsHeading(l)
             THEN Chunking(lines, k + 1,
                           Keep(Flush(chunks, buf), AfterMark(l, RunOf(l, "#"))),
                           <<>>)
             ELSE IF IsBullet(l)
             THEN Chunking(lines, k + 1,
                           Keep(Flush(chunks, buf), AfterMark(l, 1)), <<>>)
             ELSE IF IsNumbered(l)
             THEN Chunking(lines, k + 1,
                           Keep(Flush(chunks, buf), AfterMark(l, Digits(l) + 1)),
                           <<>>)
             ELSE Chunking(lines, k + 1, chunks, Append(buf, l))

\* line 219: re.split(r"(?<=[.!?])\s+(?=[A-Z])", chunk), from position k on
RECURSIVE SentencesFrom(_, _, _)
SentencesFrom(t, k, cur) ==
    IF k > Len(t) THEN <<cur>>
    ELSE IF /\ k > 1
            /\ IsStop(t[k - 1])
            /\ IsWs(t[k])
            /\ WsEnd(t, k) < Len(t)
            /\ IsUpper(t[WsEnd(t, k) + 1])
    THEN <<cur>> \o SentencesFrom(t, WsEnd(t, k) + 1, <<>>)
    ELSE SentencesFrom(t, k + 1, Append(cur, t[k]))

\* lines 220-223: the parts of one chunk that are kept
RECURSIVE KeepParts(_, _)
KeepParts(out, parts) ==
    IF parts = <<>> THEN out
    ELSE KeepParts(Keep(out, StripWs(Head(parts))), Tail(parts))

\* lines 217-223
RECURSIVE Final(_, _)
Final(out, chunks) ==
    IF chunks = <<>> THEN out
    ELSE Final(KeepParts(out, SentencesFrom(Head(chunks), 1, <<>>)),
               Tail(chunks))

\* split_sentences, lines 169-225
split_sentences(t) ==
    Final(<<>>, Chunking(LinesFrom(StripMarkdown(t), 1, <<>>), 1, <<>>, <<>>))

SplitSentences ==
    /\ ~split_done
    /\ final' = split_sentences(resp)
    /\ split_done' = TRUE
    /\ UNCHANGED resp

NoResponse ==
    /\ resp = <<>>
    /\ final = <<>>
    /\ split_done = FALSE

InitSplit ==
    /\ resp \in Responses
    /\ final = <<>>
    /\ split_done = FALSE

(***************************************************************************)
(* Properties of split_sentences                                           *)
(***************************************************************************)
\* The characters of t that are not whitespace, in order.
NonWs(t) == SelectSeq(t, LAMBDA c : ~IsWs(c))

\* a can be had from b by leaving characters out.
RECURSIVE IsSubseq(_, _)
IsSubseq(a, b) ==
    IF a = <<>> THEN TRUE
    ELSE IF b = <<>> THEN FALSE
    ELSE IF Head(a) = Head(b) THEN IsSubseq(Tail(a), Tail(b))
    ELSE IsSubseq(a, Tail(b))

\* C13: every chunk split_sentences returned has at least 3 characters
\* once its whitespace runs are collapsed, and the chunks follow the order
\* of the response: their text, one chunk after the other and whitespace
\* aside, is the response with characters left out.
C13_ChunksLongInOrder ==
    split_done =>
        /\ \A k \in 1..Len(final) : Len(CollapseWsFrom(final[k], 1)) >= 3
        /\ IsSubseq(NonWs(Flat(final)), NonWs(resp))

\* A response that gave two different chunks, part of it (a mark, or a
\* chunk too short) left out.
C13_Witness ==
    /\ split_done
    /\ Len(final) = 2
    /\ final[1] # final[2]
    /\ Len(NonWs(Flat(final))) < Len(NonWs(resp))

(***************************************************************************)
(* The audio callback and the consumer loop of capture_speech              *)
(***************************************************************************)
\* Frames the stream delivers in one behaviour.
MaxArrivals == 5

\* line 66: q.append(bytes(indata)), the first half of the callback
CbAppend ==
    /\ cpc # "returned"
    /\ cb_pc = "idle"
    /\ arrived < MaxArrivals
    /\ arrived' = arrived + 1
    /\ frame_q' = Append(frame_q, arrived + 1)
    /\ cb_pc' = "appended"
    /\ raced' = (raced \/ cpc \in {"clear", "drain"})
    /\ UNCHANGED <<event, cpc, handled, dropped>>

\* line 67: event.set(), the second half of the callback
CbSet ==
    /\ cb_pc = "appended"
    /\ event' = TRUE
    /\ cb_pc' = "idle"
    /\ UNCHANGED <<frame_q, cpc, arrived, handled, dropped, raced>>

\* lines 78-81: what follows what in the consumer loop: event.wait(), then
\* event.clear(), then the drain of q, then event.wait() again
ConsumerOrderClearLast ==
    [wait |-> "drain", drain |-> "clear", clear |-> "wait"]
ConsumerOrder == [wait |-> "clear", clear |-> "drain", drain |-> "wait"]

\* line 79: event.wait() returns once the event is set
Wait ==
    /\ cpc = "wait"
    /\ event
    /\ cpc' = ConsumerOrder.wait
    /\ UNCHANGED <<frame_q, event, cb_pc, arrived, handled, dropped, raced>>

\* line 80: event.clear()
Clear ==
    /\ cpc = "clear"
    /\ event' = FALSE
    /\ cpc' = ConsumerOrder.clear
    /\ UNCHANGED <<frame_q, cb_pc, arrived, handled, dropped, raced>>

\* lines 81-124: q.pop(0) and the frame classified; when the frame completes
\* a segment the function returns, the with block closes the stream, and
\* q goes with the call, whatever it still holds.  A callback under way
\* ends with the stream.
Pop ==
    /\ cpc = "drain"
    /\ frame_q # <<>>
    /\ handled' = Append(handled, Head(frame_q))
    /\ \E returns \in BOOLEAN :
        IF returns
        THEN /\ cpc' = "returned"
             /\ dropped' = dropped \cup {frame_q[k] : k \in 2..Len(frame_q)}
             /\ frame_q' = <<>>
             /\ cb_pc' = "idle"
        ELSE /\ frame_q' = Tail(frame_q)
             /\ UNCHANGED <<cpc, dropped, cb_pc>>
    /\ UNCHANGED <<event, arrived, raced>>

\* lines 81 and 78-79: q is empty, back to event.wait()
DrainEnd ==
    /\ cpc = "drain"
    /\ frame_q = <<>>
    /\ cpc' = ConsumerOrder.drain
    /\ UNCHANGED <<frame_q, event, cb_pc, arrived, handled, dropped, raced>>

\* main line 641, lines 62-75: the next call, with a new q, a new event
\* and a new stream
CaptureAgain ==
    /\ cpc = "returned"
    /\ arrived < MaxArrivals
    /\ cpc' = "wait"
    /\ frame_q' = <<>>
    /\ event' = FALSE
    /\ cb_pc' = "idle"
    /\ UNCHANGED <<arrived, handled, dropped, raced>>

InitQueue ==
    /\ frame_q = <<>>
    /\ event = FALSE
    /\ cb_pc = "idle"
    /\ cpc = "wait"
    /\ arrived = 0
    /\ handled = <<>>
    /\ dropped = {}
    /\ raced = FALSE

(***************************************************************************)
(* Properties of the callback and the consumer loop                        *)
(***************************************************************************)
Queued == {frame_q[k] : k \in 1..Len(frame_q)}
Handled == {handled[k] : k \in 1..Len(handled)}

\* Frames are popped in arrival order, none twice, none passed over while
\* the call runs: the frames popped, then those dropped at a return, then
\* those queued account for every frame delivered, each once, and both
\* sequences are increasing.
QueueInOrder ==
    /\ \A j, k \in 1..Len(handled) : j < k => handled[j] < handled[k]
    /\ \A j, k \in 1..Len(frame_q) : j < k => frame_q[j] < frame_q[k]
    /\ \A a \in Handled, b \in Queued : a < b
    /\ Handled \cup dropped \cup Queued = 1..arrived
    /\ Handled \cap dropped = {}
    /\ Handled \cap Queued = {}
    /\ dropped \cap Queued = {}

\* C20 as stated: frames are processed in arrival order, each once, no
\* frame that was enqueued is discarded unprocessed, and every frame that
\* was enqueued is eventually processed.
C20_EveryFrameProcessed ==
    /\ []QueueInOrder
    /\ [](dropped = {})
    /\ \A f \in 1..MaxArrivals : [](f \in Queued => <>(f \in Handled))

\* C20 as amended: frames are processed in arrival order, each once, and
\* every frame that was enqueued is eventually processed, with no further
\* frame needed to wake the consumer, unless the call returns a segment
\* first: the frames then still queued are discarded with the call.
C20_NoLostWakeup ==
    /\ []QueueInOrder
    /\ \A f \in 1..MaxArrivals :
           [](f \in Queued => <>(f \in Handled \/ f \in dropped))

\* Every frame was delivered and popped, none dropped, the consumer is
\* waiting again, and at least one frame arrived while the consumer was
\* between event.wait() and the end of its drain.
C20_Witness ==
    /\ raced
    /\ arrived = MaxArrivals
    /\ handled = [k \in 1..MaxArrivals |-> k]
    /\ dropped = {}
    /\ frame_q = <<>>
    /\ cpc = "wait"

(***************************************************************************)
(* Specifications                                                          *)
(***************************************************************************)
InitSeg ==
    /\ capturing = FALSE
    /\ speech_buf = <<>>
    /\ silent_count = 0
    /\ speech_count = 0
    /\ recording = FALSE
    /\ fed = <<>>
    /\ segments = <<>>

IdleWake ==
    /\ text = <<>>
    /\ wake_words = <<>>
    /\ pcw = "off"
    /\ is_match = FALSE
    /\ stripped = <<>>

InitWake ==
    /\ text \in Texts
    /\ wake_words \in WakeLists
    /\ pcw = "heard"
    /\ is_match = FALSE
    /\ stripped = <<>>

\* main before the first response: no call of speak_response yet
InitSpeak ==
    /\ session = 0
    /\ pc = "main"
    /\ num_chunks = 0
    /\ loop_i = 0
    /\ wav = None
    /\ next_wav = None
    /\ next_thread = 0
    /\ container = NoKey
    /\ threads = <<>>
    /\ active = FALSE
    /\ exc = FALSE
    /\ played = <<>>
    /\ synth_out = [c \in ChunkIds |-> "unset"]
    /\ cancel_mark = NoMark
    /\ stopped = [s \in Sessions |-> FALSE]
    /\ sl_running = [s \in Sessions |-> FALSE]
    /\ sl_thread = [s \in Sessions |-> "none"]
    /\ pressed = [s \in Sessions |-> FALSE]
    /\ kl_running = [s \in Sessions |-> FALSE]
    /\ kl_thread = [s \in Sessions |-> "none"]

NextSeg ==
    \/ CaptureSpeech /\ UNCHANGED <<wakeVars, speakVars, swVars, mainVars, splitVars, queueVars>>
    \/ QuietFrame /\ UNCHANGED <<wakeVars, speakVars, swVars, mainVars, splitVars, queueVars>>
    \/ SpeechFrame /\ UNCHANGED <<wakeVars, speakVars, swVars, mainVars, splitVars, queueVars>>
    \/ NonSpeechFrame /\ UNCHANGED <<wakeVars, speakVars, swVars, mainVars, splitVars, queueVars>>

\* main before any transcript was taken and before any response was spoken.
Init == InitSeg /\ IdleWake /\ InitSpeak /\ InitListen /\ InitMain /\ NoResponse /\ InitQueue

SpecSeg == Init /\ [][NextSeg]_vars

NextWake ==
    \/ WakeMatch /\ UNCHANGED <<segVars, speakVars, swVars, mainVars, splitVars, queueVars>>
    \/ StripWake /\ UNCHANGED <<segVars, speakVars, swVars, mainVars, splitVars, queueVars>>

\* A transcript and the configured phrases are at hand.
InitHeard == InitSeg /\ InitWake /\ InitSpeak /\ InitListen /\ InitMain /\ NoResponse /\ InitQueue

SpecWake == InitHeard /\ [][NextWake]_vars

NextSpeak ==
    \/ SpeakResponse /\ UNCHANGED <<segVars, wakeVars, swVars, mainVars, splitVars, queueVars>>
    \/ Synth0 /\ UNCHANGED <<segVars, wakeVars, swVars, mainVars, splitVars, queueVars>>
    \/ LoopTop /\ UNCHANGED <<segVars, wakeVars, swVars, mainVars, splitVars, queueVars>>
    \/ JoinTop /\ UNCHANGED <<segVars, wakeVars, swVars, mainVars, splitVars, queueVars>>
    \/ Play /\ UNCHANGED <<segVars, wakeVars, swVars, mainVars, splitVars, queueVars>>
    \/ Poll /\ UNCHANGED <<segVars, wakeVars, swVars, mainVars, splitVars, queueVars>>
    \/ PlaybackEnds /\ UNCHANGED <<segVars, wakeVars, swVars, mainVars, splitVars, queueVars>>
    \/ AfterPlay /\ UNCHANGED <<segVars, wakeVars, swVars, mainVars, splitVars, queueVars>>
    \/ JoinEnd /\ UNCHANGED <<segVars, wakeVars, swVars, mainVars, splitVars, queueVars>>
    \/ SynthDone /\ UNCHANGED <<segVars, wakeVars, swVars, mainVars, splitVars, queueVars>>
    \/ StopKey /\ UNCHANGED <<segVars, wakeVars, swVars, mainVars, splitVars, queueVars>>
    \/ JoinKey /\ UNCHANGED <<segVars, wakeVars, swVars, mainVars, splitVars, queueVars>>
    \/ JoinSL /\ UNCHANGED <<segVars, wakeVars, swVars, mainVars, splitVars, queueVars>>
    \/ JoinSLTimeout /\ UNCHANGED <<segVars, wakeVars, swVars, mainVars, splitVars, queueVars>>
    \/ SLOpen /\ UNCHANGED <<segVars, wakeVars, swVars, mainVars, splitVars, queueVars>>
    \/ SLSegment /\ UNCHANGED <<segVars, wakeVars, swVars, mainVars, splitVars, queueVars>>
    \/ SLTranscribed /\ UNCHANGED <<segVars, wakeVars, swVars, mainVars, splitVars, queueVars>>
    \/ SLExit /\ UNCHANGED <<segVars, wakeVars, swVars, mainVars, splitVars, queueVars>>
    \/ KLEscape /\ UNCHANGED <<segVars, wakeVars, swVars, mainVars, splitVars, queueVars>>
    \/ KLExit /\ UNCHANGED <<segVars, wakeVars, swVars, mainVars, splitVars, queueVars>>

SpecSpeak == Init /\ [][NextSpeak]_vars

notSpeak == <<segVars, wakeVars, swVars, mainVars, splitVars, queueVars>>

\* speak_response under fair scheduling.  The main thread keeps running,
\* so each of its steps is taken when it stays possible; every synthesis
\* call comes back (lines 529 and 551); the output stream plays a chunk to
\* its end; the listener threads are scheduled, their loops coming round
\* every 100 ms (line 427) and 50 ms (line 495).  Nothing obliges the user
\* to speak or to press Escape, whisper.transcribe to come back, or main
\* to call speak_response again.
SpecSpeakFair ==
    /\ Init
    /\ [][NextSpeak]_vars
    /\ WF_vars(Synth0 /\ UNCHANGED notSpeak)
    /\ WF_vars(LoopTop /\ UNCHANGED notSpeak)
    /\ WF_vars(JoinTop /\ UNCHANGED notSpeak)
    /\ WF_vars(Play /\ UNCHANGED notSpeak)
    /\ WF_vars(Poll /\ UNCHANGED notSpeak)
    /\ WF_vars(PlaybackEnds /\ UNCHANGED notSpeak)
    /\ WF_vars(AfterPlay /\ UNCHANGED notSpeak)
    /\ WF_vars(JoinEnd /\ UNCHANGED notSpeak)
    /\ WF_vars(SynthDone /\ UNCHANGED notSpeak)
    /\ WF_vars(StopKey /\ UNCHANGED notSpeak)
    /\ WF_vars(JoinKey /\ UNCHANGED notSpeak)
    /\ WF_vars(JoinSL /\ UNCHANGED notSpeak)
    /\ WF_vars(JoinSLTimeout /\ UNCHANGED notSpeak)
    /\ WF_vars(SLOpen /\ UNCHANGED notSpeak)
    /\ WF_vars(SLExit /\ UNCHANGED notSpeak)
    /\ WF_vars(KLExit /\ UNCHANGED notSpeak)

\* The listener thread of one playback session, and capture_speech fed the
\* same frames.
NextListen ==
    \/ SWStart /\ UNCHANGED <<segVars, wakeVars, speakVars, mainVars, splitVars, queueVars>>
    \/ CaptureSpeech /\ UNCHANGED <<wakeVars, speakVars, swVars, mainVars, splitVars, queueVars>>
    \/ QuietFrame /\ StopListenerFrame(fed'[Len(fed')])
                  /\ UNCHANGED <<wakeVars, speakVars, mainVars, splitVars, queueVars>>
    \/ SpeechFrame /\ StopListenerFrame(fed'[Len(fed')])
                   /\ UNCHANGED <<wakeVars, speakVars, mainVars, splitVars, queueVars>>
    \/ NonSpeechFrame /\ StopListenerFrame(fed'[Len(fed')])
                      /\ UNCHANGED <<wakeVars, speakVars, mainVars, splitVars, queueVars>>
    \/ SWVadRaises /\ UNCHANGED <<segVars, wakeVars, speakVars, mainVars, splitVars, queueVars>>
    \/ SWStop /\ UNCHANGED <<segVars, wakeVars, speakVars, mainVars, splitVars, queueVars>>
    \/ SWExit /\ UNCHANGED <<segVars, wakeVars, speakVars, mainVars, splitVars, queueVars>>

SpecListen == Init /\ [][NextListen]_vars

NextMain ==
    \/ MainLoop /\ UNCHANGED <<segVars, wakeVars, speakVars, swVars, splitVars, queueVars>>
    \/ MainCaptured /\ UNCHANGED <<segVars, wakeVars, speakVars, swVars, splitVars, queueVars>>
    \/ MainTranscribe /\ UNCHANGED <<segVars, wakeVars, speakVars, swVars, splitVars, queueVars>>
    \/ MainWakeCheck /\ UNCHANGED <<segVars, wakeVars, speakVars, swVars, splitVars, queueVars>>
    \/ MainAsk /\ UNCHANGED <<segVars, wakeVars, speakVars, swVars, splitVars, queueVars>>
    \/ MainRespond /\ UNCHANGED <<segVars, wakeVars, speakVars, swVars, splitVars, queueVars>>
    \/ MainSpeak /\ UNCHANGED <<segVars, wakeVars, speakVars, swVars, splitVars, queueVars>>

SpecMain == Init /\ [][NextMain]_vars

\* A response text is at hand.
InitResponse ==
    /\ InitSeg /\ IdleWake /\ InitSpeak /\ InitListen /\ InitMain
    /\ InitSplit /\ InitQueue

NextSplit ==
    SplitSentences
        /\ UNCHANGED <<segVars, wakeVars, speakVars, swVars, mainVars, queueVars>>

SpecSplit == InitResponse /\ [][NextSplit]_vars

notQueue == <<segVars, wakeVars, speakVars, swVars, mainVars, splitVars>>

NextQueue ==
    \/ CbAppend /\ UNCHANGED notQueue
    \/ CbSet /\ UNCHANGED notQueue
    \/ Wait /\ UNCHANGED notQueue
    \/ Clear /\ UNCHANGED notQueue
    \/ Pop /\ UNCHANGED notQueue
    \/ DrainEnd /\ UNCHANGED notQueue
    \/ CaptureAgain /\ UNCHANGED notQueue

\* The callback, once it has appended, sets the event; the consumer thread
\* keeps running.  Nothing obliges a further frame to arrive, nor main to
\* call capture_speech again.
SpecQueue ==
    /\ Init
    /\ [][NextQueue]_vars
    /\ WF_vars(CbSet /\ UNCHANGED notQueue)
    /\ WF_vars(Wait /\ UNCHANGED notQueue)
    /\ WF_vars(Clear /\ UNCHANGED notQueue)
    /\ WF_vars(Pop /\ UNCHANGED notQueue)
    /\ WF_vars(DrainEnd /\ UNCHANGED notQueue)

====
